---- MODULE Spec2Model ----
(***************************************************************************)
(* Model of scripts/convert-sword-to-osis.py: the reader of a Sword module *)
(* index (read_sword_index), the converter that maps slot numbers to OSIS  *)
(* references and writes the OSIS document (convert_module_to_osis), and   *)
(* the batch driver (main).                                                *)
(*                                                                         *)
(* Index bytes are naturals 0..255.  Bytes of the data file and characters *)
(* of texts are one-character strings.  A zlib stream in the data file is  *)
(* the header byte ZHDR, the payload bytes, and the trailer byte ZEND.     *)
(***************************************************************************)
EXTENDS Integers, Sequences, FiniteSets, TLC

\* ---------------------------------------------------------------- bounds
\* Longest index file of which every content is enumerated, in records.
MaxPre == 2
\* Most records that precede the long run of valid records in a long index.
MaxLongPre == 1
\* Most module directories in one batch.
MaxModules == 2

\* ------------------------------------------------------ program constants
MAX_VERSES_PER_CHAPTER == 200
entry_size == 12
\* range(min(num_entries, 100))
ScanLimit == 100
\* list(entries.items())[:50]
WriteLimit == 50
\* text[:200]
TextCap == 200
\* idx // (50 * MAX_VERSES_PER_CHAPTER)
ChaptersPerBook == 50

KJV_BOOKS ==
  << "Gen", "Exod", "Lev", "Num", "Deut", "Josh", "Judg", "Ruth", "1Sam", "2Sam",
     "1Kgs", "2Kgs", "1Chr", "2Chr", "Ezra", "Neh", "Esth", "Job", "Ps", "Prov",
     "Eccl", "Song", "Isa", "Jer", "Lam", "Ezek", "Dan", "Hos", "Joel", "Amos",
     "Obad", "Jonah", "Mic", "Nah", "Hab", "Zeph", "Hag", "Zech", "Mal",
     "Matt", "Mark", "Luke", "John", "Acts", "Rom", "1Cor", "2Cor", "Gal", "Eph",
     "Phil", "Col", "1Thess", "2Thess", "1Tim", "2Tim", "Titus", "Phlm", "Heb",
     "Jas", "1Pet", "2Pet", "1John", "2John", "3John", "Jude", "Rev" >>

\* ---------------------------------------------------------------- helpers
Min(a, b) == IF a <= b THEN a ELSE b

\* Python slicing data[a:b] for 0 <= a.
Slice(data, a, b) == SubSeq(data, a + 1, Min(b, Len(data)))

\* n copies of the sequence s, one after the other.
Repeat(s, n) == [k \in 1..(n * Len(s)) |-> s[((k - 1) % Len(s)) + 1]]

\* ------------------------------------------------------------ struct '<III'
\* struct.unpack('<I', b): little-endian unsigned 32-bit.
UnpackU32(b) == b[1] + 256 * b[2] + 65536 * b[3] + 16777216 * b[4]

\* struct.unpack('<III', idx_entry) -> (offset, size, comp_size)
Unpack(idx_entry) ==
  [offset    |-> UnpackU32(SubSeq(idx_entry, 1, 4)),
   size      |-> UnpackU32(SubSeq(idx_entry, 5, 8)),
   comp_size |-> UnpackU32(SubSeq(idx_entry, 9, 12))]

\* The 12 bytes a Sword writer stores for one record (inverse of Unpack;
\* used only to build index files).
PackU32(v) ==
  << v % 256, (v \div 256) % 256, (v \div 65536) % 256, (v \div 16777216) % 256 >>

PackRecord(r) == PackU32(r[1]) \o PackU32(r[2]) \o PackU32(r[3])

\* ------------------------------------------------------------------- zlib
ZHDR == "Z"
ZEND == "$"
\* A byte that is not valid UTF-8 on its own.
BadByte == "#"

\* Position of the first trailer byte of the stream starting at b[1], 0 if none.
StreamEnd(b) ==
  LET ends == { k \in 2..Len(b) : b[k] = ZEND }
  IN  IF ends = {} THEN 0 ELSE CHOOSE k \in ends : \A j \in ends : k <= j

\* zlib.decompress(compressed): fails on an empty input, on bytes that do
\* not begin a stream and on a truncated stream; bytes after the end of the
\* stream are ignored.
Decompress(b) ==
  IF Len(b) = 0 \/ b[1] # ZHDR
  THEN [ok |-> FALSE, data |-> << >>]
  ELSE LET e == StreamEnd(b)
       IN  IF e = 0 THEN [ok |-> FALSE, data |-> << >>]
           ELSE [ok |-> TRUE, data |-> SubSeq(b, 2, e - 1)]

\* bytes.decode('utf-8', errors='ignore'): invalid bytes are dropped.
IsValidByte(c) == c # BadByte
Utf8Decode(bytes) == SelectSeq(bytes, IsValidByte)

\* text[:200]
Truncate(text) == Slice(text, 0, TextCap)

\* dat.seek(offset); dat.read(comp_size)
ReadAt(data, offset, n) == Slice(data, offset, offset + n)

\* ------------------------------------------------------------- escaping
RECURSIVE Replace(_, _, _)
\* str.replace(old, new) for a one-character old: every occurrence, left to
\* right (computed by halves).
Replace(text, old, new) ==
  IF Len(text) = 0 THEN << >>
  ELSE IF Len(text) = 1 THEN (IF text[1] = old THEN new ELSE text)
  ELSE LET half == Len(text) \div 2
       IN  Replace(SubSeq(text, 1, half), old, new)
           \o Replace(SubSeq(text, half + 1, Len(text)), old, new)

AMP == << "&", "a", "m", "p", ";" >>
LT  == << "&", "l", "t", ";" >>
GT  == << "&", "g", "t", ";" >>

\* Variant: the ampersand replaced last.
EscapeAmpLast(text) == Replace(Replace(Replace(text, "<", LT), ">", GT), "&", AMP)

\* Variant: the cap applied to the escaped text.
EscapeThenCut(text) ==
  Slice(Replace(Replace(Replace(text, "&", AMP), "<", LT), ">", GT), 0, TextCap)

\* text.replace('&', '&amp;').replace('<', '&lt;').replace('>', '&gt;')
Escape(text) == Replace(Replace(Replace(text, "&", AMP), "<", LT), ">", GT)

\* --------------------------------------------------------- reference map
\* Variant: works counted from 1.
book_idx_from1(idx) == (idx \div (ChaptersPerBook * MAX_VERSES_PER_CHAPTER)) + 1

\* idx // (50 * MAX_VERSES_PER_CHAPTER)
book_idx(idx) == idx \div (ChaptersPerBook * MAX_VERSES_PER_CHAPTER)

\* Variant: the chapter taken on the raw index.
chapter_raw(idx) == (idx \div MAX_VERSES_PER_CHAPTER) + 1

\* ((idx % (50 * MAX_VERSES_PER_CHAPTER)) // MAX_VERSES_PER_CHAPTER) + 1
chapter(idx) ==
  ((idx % (ChaptersPerBook * MAX_VERSES_PER_CHAPTER)) \div MAX_VERSES_PER_CHAPTER) + 1

\* (idx % MAX_VERSES_PER_CHAPTER) + 1
verse(idx) == (idx % MAX_VERSES_PER_CHAPTER) + 1

Digit(d) == << "0", "1", "2", "3", "4", "5", "6", "7", "8", "9" >>[d + 1]

RECURSIVE Str(_)
\* str(n) for n >= 0, as the sequence of its decimal digits.
Str(n) == IF n < 10 THEN << Digit(n) >> ELSE Str(n \div 10) \o << Digit(n % 10) >>

\* f"{book}.{chapter}.{verse}"
osisID(book, ch, v) == << book >> \o << "." >> \o Str(ch) \o << "." >> \o Str(v)

\* One line of the output document.
Line(tag, id, content) == [tag |-> tag, osisID |-> id, content |-> content]

Header ==
  << Line("xml_decl", << >>, << >>),
     Line("osis_open", << >>, << >>),
     Line("osisText_open", << >>, << >>) >>

Footer ==
  << Line("osisText_close", << >>, << >>),
     Line("osis_close", << >>, << >>) >>

\* Body of the write loop for one (idx, text) item: the lines it writes.
VerseLines(idx, text) ==
  IF book_idx(idx) < Len(KJV_BOOKS)
  THEN << Line("verse",
               osisID(KJV_BOOKS[book_idx(idx) + 1], chapter(idx), verse(idx)),
               Escape(text)) >>
  ELSE << >>

\* Variant: the slice [1:50].
SampleEntriesFrom1(es) == Slice(es, 1, WriteLimit)

\* Variants: the first 50 items, last first; every item.
SampleEntriesReversed(es) ==
  LET first == Slice(es, 0, WriteLimit)
  IN  [j \in DOMAIN first |-> first[Len(first) + 1 - j]]

SampleEntriesAll(es) == es

\* list(entries.items())[:50]
SampleEntries(es) == Slice(es, 0, WriteLimit)

\* ----------------------------------------------------------- input files
\* The data file on disk: a junk byte at offset 0, stream A "<a" at 1, two junk
\* bytes at 5, the long stream L (199 "a", then "&<", 201 characters) at 7,
\* stream B "b" with an invalid byte at 210, and a stream cut by the end of
\* the file at 214.
LongText == Repeat(<< "a" >>, TextCap - 1) \o << "&", "<" >>

Junk0   == << "J" >>
StreamA == << ZHDR, "<", "a", ZEND >>
Junk1   == << "J", "J" >>
StreamL == << ZHDR >> \o LongText \o << ZEND >>
StreamB == << ZHDR, "b", BadByte, ZEND >>
CutStream == << ZHDR, "c" >>

DatFile == Junk0 \o StreamA \o Junk1 \o StreamL \o StreamB \o CutStream

OffA == Len(Junk0)
OffJunk == OffA + Len(StreamA)
OffL == OffJunk + Len(Junk1)
OffB == OffL + Len(StreamL)
OffCut == OffB + Len(StreamB)

\* Index records (offset, size, comp_size) a file may hold.
RecEmpty    == << 0, 0, 0 >>
RecOffZero  == << 0, 2, 4 >>
RecSizeZero == << OffA, 0, 4 >>
RecValid    == << OffA, 2, 4 >>
RecCorrupt  == << OffJunk, 1, 2 >>
RecLong     == << OffL, Len(LongText), Len(LongText) + 2 >>
RecPastEnd  == << OffB, 1, 300 >>
RecCut      == << OffCut, 1, 6 >>

RecordKinds ==
  { RecEmpty, RecOffZero, RecSizeZero, RecValid, RecCorrupt, RecLong,
    RecPastEnd, RecCut }

\* Sequences of at most n index records.
RECURSIVE RecordSeqs(_)
RecordSeqs(n) ==
  IF n = 0 THEN { << >> }
  ELSE LET shorter == RecordSeqs(n - 1)
       IN  shorter \cup
           { Append(s, r) : s \in { t \in shorter : Len(t) = n - 1 }, r \in RecordKinds }

\* Bytes of an incomplete record at the end of the index file.
PartialBlocks == { << >>, << 7, 0, 0, 0, 1 >> }

PackAll(recs) ==
  [k \in 1..(entry_size * Len(recs)) |->
     PackRecord(recs[((k - 1) \div entry_size) + 1])[((k - 1) % entry_size) + 1]]

\* Short index files of every content, and long ones: a few records of any
\* kind followed by as many valid records as the scan takes.
ShortIndexFiles ==
  { PackAll(pre) \o part : pre \in RecordSeqs(MaxPre), part \in PartialBlocks }

LongIndexFiles ==
  { PackAll(pre) \o Repeat(PackRecord(RecValid), ScanLimit) \o part :
      pre \in RecordSeqs(MaxLongPre), part \in PartialBlocks }

IndexFiles == ShortIndexFiles \cup LongIndexFiles

NoFile == << "absent" >>

\* An output document left on disk by an earlier run.
StaleDocument == << "stale" >>

\* ----------------------------------------------------------------- state
VARIABLES
  pc,             \* control point
  module_dirs,    \* main: len(module_dirs), once the directories are listed
  m,              \* modules taken from module_dirs so far
  success_count,  \* main: success_count
  returned,       \* return values of convert_module_to_osis, one per module
  log,            \* lines printed for the current module
  out_file,       \* the current module's output document, or NoFile
  idx_data,       \* read_sword_index: idx_data
  dat_pos,        \* position of the handle dat (dat_data = dat.read() leaves
                  \* it at the end; dat_data itself is never used)
  num_entries,    \* read_sword_index: num_entries
  i,              \* read_sword_index: loop variable
  rec,            \* read_sword_index: offset, size, comp_size
  entries,        \* read_sword_index: entries, in insertion order
  w,              \* convert_module_to_osis: items of the write loop done
  disk,           \* what read_sword_index found on disk for this module
  slot,           \* reference mapping alone: the slot index
  mapped,         \* reference mapping alone: what the loop body wrote
  text,           \* escaping alone: a decoded text
  nfrag,          \* escaping alone: pieces the text was built from
  stored,         \* escaping alone: the text as stored in entries
  content         \* escaping alone: the element content written

convVars ==
  << pc, module_dirs, m, success_count, returned, log, out_file, idx_data,
     dat_pos, num_entries, i, rec, entries, w, disk >>
mapVars == << slot, mapped >>
escVars == << text, nfrag, stored, content >>
vars == << convVars, mapVars, escVars >>

Msg(kind, n) == [kind |-> kind, n |-> n]

NoRec == [offset |-> 0, size |-> 0, comp_size |-> 0]
NoDisk == [idx_exists |-> FALSE, idx_len |-> 0, dat_opens |-> FALSE]

Init ==
  /\ pc = "start"
  /\ module_dirs = 0
  /\ m = 0
  /\ success_count = 0
  /\ returned = << >>
  /\ log = << >>
  /\ out_file = NoFile
  /\ idx_data = << >>
  /\ dat_pos = 0
  /\ num_entries = 0
  /\ i = 0
  /\ rec = NoRec
  /\ entries = << >>
  /\ w = 0
  /\ disk = NoDisk
  /\ slot = 0
  /\ mapped = << >>
  /\ text = << >>
  /\ nfrag = 0
  /\ stored = << >>
  /\ content = << >>

\* The locals of a finished call are dead.
ClearLocals ==
  /\ idx_data' = << >>
  /\ dat_pos' = 0
  /\ num_entries' = 0
  /\ i' = 0
  /\ rec' = NoRec
  /\ entries' = << >>
  /\ w' = 0
  /\ disk' = NoDisk

\* Variant: every module counts as a success.
ReturnCountAll(result) ==
  /\ pc' = "main"
  /\ returned' = Append(returned, result)
  /\ success_count' = success_count + 1

\* convert_module_to_osis returns `result` to main's loop body.
Return(result) ==
  /\ pc' = "main"
  /\ returned' = Append(returned, result)
  /\ success_count' = IF result THEN success_count + 1 ELSE success_count

\* ------------------------------------------------------------------ main
\* Line 176: list the module directories under RAW_DIR.  iterdir raises
\* when RAW_DIR cannot be listed, and nothing in main catches it.
main_find_modules ==
  /\ pc = "start"
  /\ \E listable \in BOOLEAN, n \in 0..MaxModules :
       IF listable
       THEN /\ module_dirs' = n
            /\ pc' = "main"
            /\ log' = << Msg("module_dirs", n) >>
       ELSE /\ n = 0
            /\ module_dirs' = 0
            /\ pc' = "raised"
            /\ log' = log
  /\ UNCHANGED << m, success_count, returned, out_file, idx_data, dat_pos,
                  num_entries, i, rec, entries, w, disk, mapVars, escVars >>

\* for module_dir in module_dirs: the next directory; its output document
\* is absent or is left from an earlier run.
main_next_module ==
  /\ pc = "main"
  /\ m < module_dirs
  /\ m' = m + 1
  /\ pc' = "convert"
  /\ log' = << Msg("converting", m + 1) >>
  /\ \E stale \in BOOLEAN : out_file' = IF stale THEN StaleDocument ELSE NoFile
  /\ ClearLocals
  /\ UNCHANGED << module_dirs, success_count, returned, mapVars, escVars >>

\* The loop is over: print the summary.
main_summary ==
  /\ pc = "main"
  /\ m >= module_dirs
  /\ pc' = "done"
  /\ log' = << Msg("summary", success_count), Msg("of", module_dirs) >>
  /\ ClearLocals
  /\ UNCHANGED << module_dirs, m, success_count, returned, out_file, mapVars, escVars >>

\* ------------------------------------------------ convert_module_to_osis
\* Variant: the data directory is not looked for.
convert_check_config_any_dir ==
  /\ pc = "convert"
  /\ \E conf \in { "none", "unreadable", "ok" }, data_dir_exists \in BOOLEAN :
       \/ /\ conf = "none"
          /\ log' = Append(log, Msg("no_conf", 0))
          /\ Return(FALSE)
       \/ /\ conf = "unreadable"
          /\ log' = Append(log, Msg("error", 0))
          /\ Return(FALSE)
       \/ /\ conf = "ok"
          /\ log' = IF data_dir_exists THEN log ELSE Append(log, Msg("no_data_dir", 0))
          /\ pc' = "read"
          /\ UNCHANGED << returned, success_count >>
  /\ UNCHANGED << module_dirs, m, out_file, idx_data, dat_pos, num_entries, i,
                  rec, entries, w, disk, mapVars, escVars >>

\* Lines 107-127: the descriptor and the data directory.
convert_check_config ==
  /\ pc = "convert"
  /\ \E conf \in { "none", "unreadable", "ok" }, data_dir_exists \in BOOLEAN :
       \/ /\ conf = "none"
          /\ log' = Append(log, Msg("no_conf", 0))
          /\ Return(FALSE)
       \/ /\ conf = "unreadable"
          /\ log' = Append(log, Msg("error", 0))
          /\ Return(FALSE)
       \/ /\ conf = "ok"
          /\ ~data_dir_exists
          /\ log' = Append(log, Msg("no_data_dir", 0))
          /\ Return(FALSE)
       \/ /\ conf = "ok"
          /\ data_dir_exists
          /\ log' = log
          /\ pc' = "read"
          /\ UNCHANGED << returned, success_count >>
  /\ UNCHANGED << module_dirs, m, out_file, idx_data, dat_pos, num_entries, i,
                  rec, entries, w, disk, mapVars, escVars >>

\* ------------------------------------------------------ read_sword_index
\* Variants: one record too many; the count rounded up.
NumEntriesPlusOne(data) == (Len(data) \div entry_size) + 1

NumEntriesCeil(data) == (Len(data) + entry_size - 1) \div entry_size

\* len(idx_data) // entry_size
NumEntries(data) == Len(data) \div entry_size

\* Lines 47-75: choose the index file (mhc.zdx, else mhc.idx), open it and
\* its data file, read both.  A missing index returns at line 60; a file
\* that cannot be opened raises into the handler of line 95.
read_sword_index_open ==
  /\ pc = "read"
  /\ \E idx_bytes \in IndexFiles \cup { NoFile }, dat_opens \in BOOLEAN :
       /\ disk' = [idx_exists |-> idx_bytes # NoFile,
                   idx_len    |-> IF idx_bytes = NoFile THEN 0 ELSE Len(idx_bytes),
                   dat_opens  |-> dat_opens]
       /\ \/ /\ idx_bytes = NoFile
             /\ log' = Append(log, Msg("index_not_found", 0))
             /\ pc' = "generate"
             /\ UNCHANGED << idx_data, dat_pos, num_entries >>
          \/ /\ idx_bytes # NoFile
             /\ ~dat_opens
             /\ log' = Append(log, Msg("read_error", 0))
             /\ pc' = "generate"
             /\ UNCHANGED << idx_data, dat_pos, num_entries >>
          \/ /\ idx_bytes # NoFile
             /\ dat_opens
             /\ idx_data' = idx_bytes
             /\ dat_pos' = Len(DatFile)
             /\ num_entries' = NumEntries(idx_bytes)
             /\ log' = Append(log, Msg("found", NumEntries(idx_bytes)))
             /\ pc' = "scan"
  /\ i' = 0
  /\ entries' = << >>
  /\ UNCHANGED << module_dirs, m, success_count, returned, out_file, rec, w, mapVars,
                  escVars >>

\* Lines 78-79.
idx_entry(k) == Slice(idx_data, k * entry_size, (k + 1) * entry_size)

\* Variant: either field non-zero.
IsUsedEither(r) == r.offset > 0 \/ r.size > 0

\* if offset > 0 and size > 0
IsUsed(r) == r.offset > 0 /\ r.size > 0

\* Lines 77-91: one iteration of the scan.  struct.unpack raises on a slice
\* that is not 12 bytes long, into the handler of line 95; a failure of
\* zlib.decompress is swallowed at line 90.
read_sword_index_slot ==
  /\ pc = "scan"
  /\ i < Min(num_entries, ScanLimit)
  /\ IF Len(idx_entry(i)) # entry_size
     THEN /\ log' = Append(log, Msg("read_error", 0))
          /\ pc' = "generate"
          /\ UNCHANGED << i, rec, dat_pos, entries >>
     ELSE LET r == Unpack(idx_entry(i))
              compressed == ReadAt(DatFile, r.offset, r.comp_size)
              z == Decompress(compressed)
          IN  /\ rec' = r
              /\ IF IsUsed(r)
                 THEN /\ dat_pos' = r.offset + Len(compressed)
                      /\ entries' =
                           IF z.ok
                           THEN Append(entries,
                                       [idx |-> i, text |-> Truncate(Utf8Decode(z.data))])
                           ELSE entries
                 ELSE UNCHANGED << dat_pos, entries >>
              /\ i' = i + 1
              /\ UNCHANGED << pc, log >>
  /\ UNCHANGED << module_dirs, m, success_count, returned, out_file, idx_data,
                  num_entries, w, disk, mapVars, escVars >>

\* Lines 93-98: the scan is over.
read_sword_index_return ==
  /\ pc = "scan"
  /\ i >= Min(num_entries, ScanLimit)
  /\ log' = Append(log, Msg("read", Len(entries)))
  /\ pc' = "generate"
  /\ UNCHANGED << module_dirs, m, success_count, returned, out_file, idx_data,
                  dat_pos, num_entries, i, rec, entries, w, disk, mapVars,
                  escVars >>

\* ------------------------------------------------ convert_module_to_osis
\* Lines 132-141: create the output document and write its header.
convert_open_output ==
  /\ pc = "generate"
  /\ \E writable \in BOOLEAN :
       LET warned == IF entries = << >>
                     THEN Append(log, Msg("placeholder", 0)) ELSE log
       IN  \/ /\ ~writable
              /\ log' = Append(warned, Msg("error", 0))
              /\ Return(FALSE)
              /\ UNCHANGED out_file
           \/ /\ writable
              /\ log' = warned
              /\ out_file' = Header
              /\ pc' = "write"
              /\ UNCHANGED << returned, success_count >>
  /\ w' = 0
  /\ UNCHANGED << module_dirs, m, idx_data, dat_pos, num_entries, i, rec, entries,
                  disk, mapVars, escVars >>

\* Lines 144-154: one iteration of the write loop.
convert_write_entry ==
  /\ pc = "write"
  /\ w < Len(SampleEntries(entries))
  /\ LET e == SampleEntries(entries)[w + 1]
     IN  out_file' = out_file \o VerseLines(e.idx, e.text)
  /\ w' = w + 1
  /\ UNCHANGED << pc, module_dirs, m, success_count, returned, log, idx_data,
                  dat_pos, num_entries, i, rec, entries, disk, mapVars, escVars >>

\* Lines 156-163: the footer; the call returns True.
convert_finish ==
  /\ pc = "write"
  /\ w >= Len(SampleEntries(entries))
  /\ out_file' = out_file \o Footer
  /\ log' = Append(log, Msg("created", 0))
  /\ Return(TRUE)
  /\ UNCHANGED << module_dirs, m, idx_data, dat_pos, num_entries, i, rec, entries,
                  w, disk, mapVars, escVars >>

Next ==
  \/ main_find_modules
  \/ main_next_module
  \/ main_summary
  \/ convert_check_config
  \/ read_sword_index_open
  \/ read_sword_index_slot
  \/ read_sword_index_return
  \/ convert_open_output
  \/ convert_write_entry
  \/ convert_finish

Spec == Init /\ [][Next]_vars

\* ------------------------------------------- the reference mapping alone
\* Largest slot index the write loop body is applied to.
MaxSlot == 670000

MapText == << "a" >>

\* Lines 144-154 for the item (slot + step, MapText).
map_item(step) ==
  /\ slot + step <= MaxSlot
  /\ mapped' = << [idx |-> slot + step, lines |-> VerseLines(slot + step, MapText)] >>
  /\ slot' = slot + step
  /\ UNCHANGED << convVars, escVars >>

\* The first item is slot 0; the next is the next verse, chapter or book.
map_first == mapped = << >> /\ map_item(0)
map_next_verse == mapped # << >> /\ map_item(1)
map_next_chapter == mapped # << >> /\ map_item(MAX_VERSES_PER_CHAPTER)
map_next_book == mapped # << >> /\ map_item(ChaptersPerBook * MAX_VERSES_PER_CHAPTER)

NextMap ==
  \/ map_first
  \/ map_next_verse
  \/ map_next_chapter
  \/ map_next_book

SpecMap == Init /\ [][NextMap]_vars

\* --------------------------------------------------- the escaping alone
\* Most pieces a text is built from.
MaxFrags == 3

\* A filler that brings a text to two characters below the cap.
Pad == Repeat(<< "x" >>, TextCap - 2)

Fragments ==
  { << "&" >>, << "<" >>, << ">" >>, << "a" >>,
    << "a", "m", "p", ";" >>, << "l", "t", ";" >>, << "g", "t", ";" >> }

\* The decoded text starts with the filler.
esc_pad ==
  /\ text = << >>
  /\ stored = << >>
  /\ nfrag = 0
  /\ text' = Pad
  /\ UNCHANGED << nfrag, stored, content, convVars, mapVars >>

\* The decoded text goes on with one more piece.
esc_append ==
  /\ nfrag < MaxFrags
  /\ stored = << >>
  /\ \E f \in Fragments : text' = text \o f
  /\ nfrag' = nfrag + 1
  /\ UNCHANGED << stored, content, convVars, mapVars >>

\* Line 89: entries[i] = text[:200]
esc_store ==
  /\ nfrag > 0
  /\ stored = << >>
  /\ stored' = Truncate(text)
  /\ UNCHANGED << text, nfrag, content, convVars, mapVars >>

\* Line 153: escaped_text = text.replace(...)...
esc_write ==
  /\ stored # << >>
  /\ content = << >>
  /\ content' = Escape(stored)
  /\ UNCHANGED << text, nfrag, stored, convVars, mapVars >>

NextEsc ==
  \/ esc_pad
  \/ esc_append
  \/ esc_store
  \/ esc_write

SpecEsc == Init /\ [][NextEsc]_vars

\* ======================================================== the properties
\* What the specification says of an index buffer and of a slot.
LE32(data, p) ==
  data[p + 1] + 256 * (data[p + 2] + 256 * (data[p + 3] + 256 * data[p + 4]))

IndexRecord(k) ==
  [offset           |-> LE32(idx_data, entry_size * k),
   length           |-> LE32(idx_data, entry_size * k + 4),
   compressedLength |-> LE32(idx_data, entry_size * k + 8)]

\* The slots a scan of the index that was read takes.
Scanned == 0 .. (Min(Len(idx_data) \div entry_size, ScanLimit) - 1)

SlotEmpty(k) == IndexRecord(k).offset = 0 \/ IndexRecord(k).length = 0

SlotPayload(k) ==
  ReadAt(DatFile, IndexRecord(k).offset, IndexRecord(k).compressedLength)

SlotFails(k) == ~SlotEmpty(k) /\ ~Decompress(SlotPayload(k)).ok
SlotValid(k) == ~SlotEmpty(k) /\ Decompress(SlotPayload(k)).ok

EntryIdxs == { entries[j].idx : j \in DOMAIN entries }

HasMsg(kind) == \E j \in DOMAIN log : log[j].kind = kind
Reported(kind) == { log[j].n : j \in { q \in DOMAIN log : log[q].kind = kind } }

\* The failure reports read_sword_index prints.
ReportedFailures == Cardinality({ j \in DOMAIN log : log[j].kind = "read_error" })

\* C1: when exactly one scanned slot fails to decompress and every other
\* scanned slot is empty or valid, the finished scan has visited every
\* slot, holds an entry for exactly the valid slots (none for the failed
\* one), and has reported exactly one failure.
C1_FailureIsolation ==
  (HasMsg("read") /\ Cardinality({ k \in Scanned : SlotFails(k) }) = 1)
    => /\ i = Cardinality(Scanned)
       /\ EntryIdxs = { k \in Scanned : SlotValid(k) }
       /\ ReportedFailures = 1

\* C2: scanning a slot whose record has offset = 0 or length = 0 adds no
\* entry, does not move the data file handle (no read), prints nothing
\* (no error) and goes on to the next slot.
C2_EmptySlotSkipped ==
  [][ (pc = "scan" /\ i \in Scanned /\ SlotEmpty(i))
        => /\ entries' = entries
           /\ dat_pos' = dat_pos
           /\ log' = log
           /\ pc' = "scan"
           /\ i' = i + 1 ]_vars

\* Slot 0, empty by its offset alone (its length is not 0), and slot 1 after
\* it, empty by its length alone, were scanned: nothing was read or stored.
C2_Witness ==
  /\ pc = "scan"
  /\ i = 2
  /\ IndexRecord(0).offset = 0 /\ IndexRecord(0).length > 0
  /\ IndexRecord(1).offset > 0 /\ IndexRecord(1).length = 0
  /\ entries = << >>
  /\ dat_pos = Len(DatFile)

\* C3: a finished decode pass reports the slots attempted, the slots
\* skipped as empty and the slots failed next to the entries emitted, an
\* empty slot counting as skipped only, and attempted = emitted + empty +
\* failed.
C3_Counters ==
  HasMsg("read")
    => /\ Reported("attempted") = { Cardinality(Scanned) }
       /\ Reported("read") = { Len(entries) }
       /\ Reported("skipped") = { Cardinality({ k \in Scanned : SlotEmpty(k) }) }
       /\ Reported("failed") = { Cardinality({ k \in Scanned : SlotFails(k) }) }
       /\ Cardinality(Scanned)
            = Len(entries) + Cardinality({ k \in Scanned : SlotEmpty(k) })
                + Cardinality({ k \in Scanned : SlotFails(k) })

SpecReference(n) ==
  LET remainder == n % 10000
  IN  osisID(KJV_BOOKS[(n \div 10000) + 1], (remainder \div 200) + 1,
             (remainder % 200) + 1)

\* C5: for every slot index n with n div (50 * 200) < 66 the loop body
\* writes one element, whose osisID is the specified reference: work
\* catalog[n div 10000], subdivision ((n mod 10000) div 200) + 1, unit
\* ((n mod 10000) mod 200) + 1.
C5_ReferenceFormula ==
  \A j \in DOMAIN mapped :
    (mapped[j].idx \div 10000 < 66)
      => /\ Len(mapped[j].lines) = 1
         /\ mapped[j].lines[1].osisID = SpecReference(mapped[j].idx)

\* Slot 20607, in the third work, fourth subdivision, was written as Lev.4.8.
C5_Witness ==
  /\ mapped # << >>
  /\ mapped[1].idx = 20607
  /\ mapped[1].lines[1].osisID = << "Lev", ".", "4", ".", "8" >>

\* C6: a slot index below 50 * 200 * 66 always resolves (one verse element
\* is written), a slot index at or above it is out of range and nothing is
\* written for it, and no element written names a work outside the
\* catalog.
C6_RangeVerdict ==
  \A j \in DOMAIN mapped :
    /\ mapped[j].idx < 50 * 200 * 66
         => Len(mapped[j].lines) = 1 /\ mapped[j].lines[1].tag = "verse"
    /\ mapped[j].idx >= 50 * 200 * 66 => mapped[j].lines = << >>
    /\ \A q \in DOMAIN mapped[j].lines :
         \E b \in DOMAIN KJV_BOOKS : mapped[j].lines[q].osisID[1] = KJV_BOOKS[b]

\* The first slot beyond the catalog was handed to the loop body, which
\* wrote nothing.
C6_Witness ==
  /\ mapped # << >>
  /\ mapped[1].idx = 50 * 200 * 66
  /\ mapped[1].lines = << >>

\* The output document, as the specification lays it out.
DocTags(doc) == [j \in DOMAIN doc |-> doc[j].tag]
IsVerse(l) == l.tag = "verse"
DocVerses(doc) == SelectSeq(doc, IsVerse)
InCatalog(e) == e.idx \div 10000 < 66

ExpectedVerses(es) ==
  LET inside == SelectSeq(es, InCatalog)
  IN  [j \in DOMAIN inside |->
         [tag |-> "verse", osisID |-> SpecReference(inside[j].idx),
          content |-> Escape(inside[j].text)]]

ExpectedTags(n) ==
  << "xml_decl", "osis_open", "osisText_open" >>
    \o [j \in 1..n |-> "verse"]
    \o << "osisText_close", "osis_close" >>

StartsAt(c, p, ent) ==
  /\ p >= 1
  /\ p + Len(ent) - 1 <= Len(c)
  /\ SubSeq(c, p, p + Len(ent) - 1) = ent

EntityAt(c, p) == StartsAt(c, p, AMP) \/ StartsAt(c, p, LT) \/ StartsAt(c, p, GT)

\* Position p lies inside an entity that starts before it.
InsideEntity(c, p) ==
  \E ent \in { AMP, LT, GT } : \E q \in (p - Len(ent) + 1) .. (p - 1) : StartsAt(c, q, ent)

IsKept(ch) == ch # ""

Unescape(c) ==
  SelectSeq([p \in DOMAIN c |->
               IF StartsAt(c, p, AMP) THEN "&"
               ELSE IF StartsAt(c, p, LT) THEN "<"
               ELSE IF StartsAt(c, p, GT) THEN ">"
               ELSE IF InsideEntity(c, p) THEN ""
               ELSE c[p]],
            IsKept)

\* C8: unescaping the three entities in the escaped text gives back the
\* text that was escaped, also when that text holds the literal characters
\* of an entity.
C8_EscapeRoundTrip ==
  content # << >> => Unescape(content) = stored

\* The text "&amp;<", which holds the literal characters of an entity, was
\* escaped.
C8_Witness ==
  /\ stored = << "&", "a", "m", "p", ";", "<" >>
  /\ content = << "&", "a", "m", "p", ";", "a", "m", "p", ";", "&", "l", "t", ";" >>

IsPlain(ch) == ch \notin { "&", "<", ">" }

\* The characters of c outside its entities.
OutsideEntities(c) ==
  SelectSeq([p \in DOMAIN c |->
               IF EntityAt(c, p) \/ InsideEntity(c, p) THEN "" ELSE c[p]],
            IsKept)

\* C9: the element content holds no raw '<' or '>', each '&' in it begins
\* one of the three entities, the other characters are those of the stored
\* text, unchanged and in order, and the stored text is the decoded text
\* cut to 200 characters before it was escaped.
C9_ContentWellFormed ==
  content # << >>
    => /\ \A p \in DOMAIN content : content[p] \notin { "<", ">" }
       /\ \A p \in DOMAIN content : content[p] = "&" => EntityAt(content, p)
       /\ OutsideEntities(content) = SelectSeq(stored, IsPlain)
       /\ stored = SubSeq(text, 1, Min(200, Len(text)))

\* A text of more than 200 characters was cut between two metacharacters
\* and then escaped.
C9_Witness ==
  /\ Len(text) > 200
  /\ Len(stored) = 200
  /\ stored[200] = "&"
  /\ content # << >>

\* The conversion of the current module is over.
Converted == pc = "main" /\ m > 0 /\ Len(returned) = m

EmptyDocument ==
  /\ DocTags(out_file) = ExpectedTags(0)
  /\ DocVerses(out_file) = << >>

Succeeded == { k \in DOMAIN returned : returned[k] }

\* Some entries of the current module decoded, others were skipped or
\* failed.
PartlyDecoded ==
  /\ HasMsg("read")
  /\ 0 < Len(entries)
  /\ Len(entries) < Cardinality(Scanned)

\* An upper bound on the steps left before the summary: the write loop,
\* the scan, the steps around them, and that much for each module to come.
CallSteps == ScanLimit + WriteLimit + 6

StepsLeft ==
  (module_dirs - m) * CallSteps
    + (CASE pc = "convert"  -> ScanLimit + WriteLimit + 6
         [] pc = "read"     -> ScanLimit + WriteLimit + 5
         [] pc = "scan"     -> (Min(num_entries, ScanLimit) - i) + WriteLimit + 4
         [] pc = "generate" -> WriteLimit + 3
         [] pc = "write"    -> (Len(SampleEntries(entries)) - w) + 2
         [] pc = "main"     -> 1
         [] OTHER           -> 0)

\* A step can be taken at every control point before the summary: a loop
\* goes on or is left, every other step is there to take.
CanStep ==
  /\ pc = "main" => (ENABLED main_next_module) \/ (ENABLED main_summary)
  /\ pc = "convert" => ENABLED convert_check_config
  /\ pc = "read" => ENABLED read_sword_index_open
  /\ pc = "scan" => i < Min(num_entries, ScanLimit) \/ (ENABLED read_sword_index_return)
  /\ pc = "generate" => ENABLED convert_open_output
  /\ pc = "write" => w < Len(SampleEntries(entries)) \/ (ENABLED convert_finish)

\* The batch as main runs it: one conversion per module directory, in
\* order; from the listing of the directories on, a step can always be
\* taken until the summary and each step brings the summary nearer; the
\* summary counts the conversions that returned True.
BatchInOrder ==
  /\ [][ m' = m \/ (m' = m + 1 /\ m < module_dirs /\ Len(returned) = m) ]_vars
  /\ [](CanStep /\ StepsLeft >= 0)
  /\ [][ pc # "start" => StepsLeft' < StepsLeft ]_vars
  /\ [](pc = "done"
          => /\ m = module_dirs
             /\ Len(returned) = module_dirs
             /\ Reported("summary") = { Cardinality(Succeeded) }
             /\ Reported("of") = { module_dirs })

\* C13 as stated: main converts each module directory exactly once, in
\* order, always reaches the summary, the summary counts the modules whose
\* conversion succeeded, and every module in which some entries decoded and
\* others were skipped or failed is counted as a success.
C13_BatchSummary ==
  /\ BatchInOrder
  /\ []((Converted /\ PartlyDecoded) => returned[m] = TRUE)

\* C13, amended: the same, a module in which some entries decoded and
\* others were skipped or failed being counted as a success when its output
\* document could be created, and as a failure when creating it raised.
C13_BatchSummaryWritable ==
  /\ BatchInOrder
  /\ []((Converted /\ PartlyDecoded) => (returned[m] = TRUE <=> ~HasMsg("error")))

\* A batch of two modules reached the summary, the first conversion having
\* failed and the second succeeded.
C13_Witness ==
  /\ pc = "done"
  /\ module_dirs = 2
  /\ returned = << FALSE, TRUE >>
  /\ Reported("summary") = { 1 }

\* The call found no index to read: neither index file exists, or the data
\* file beside the index could not be opened.
NoIndexFound ==
  \/ HasMsg("index_not_found")
  \/ disk.idx_exists /\ ~disk.dat_opens

\* The call left the output document as it found it.
DocumentUntouched == out_file = NoFile \/ out_file = StaleDocument

\* C11: a conversion that found no index to read is aborted (no document is
\* written, the module counts as failed), a conversion that read an index
\* of which no entry decoded writes the header and the footer alone and
\* counts as successful, and the batch continues after both.
C11_NoIndexAborts ==
  /\ (Converted /\ NoIndexFound)
       => /\ returned[m] = FALSE
          /\ DocumentUntouched
          /\ ENABLED (main_next_module \/ main_summary)
  /\ (Converted /\ HasMsg("read") /\ entries = << >> /\ ~HasMsg("error"))
       => /\ returned[m] = TRUE
          /\ EmptyDocument
          /\ ENABLED (main_next_module \/ main_summary)

\* The conversion printed that the descriptor or the data directory is
\* missing.
ConfigurationError == HasMsg("no_conf") \/ HasMsg("no_data_dir")

\* C12: a conversion that finds no descriptor, or no data directory, returns
\* False at that step, having read no index and leaving the output document
\* as it was (absent or left from an earlier run); main then takes the next
\* module directory, or prints the summary after the last.
C12_ConfigurationError ==
  /\ [][ (pc = "convert" /\ ConfigurationError')
           => /\ pc' = "main"
              /\ returned' = Append(returned, FALSE)
              /\ success_count' = success_count
              /\ out_file' = out_file
              /\ disk' = NoDisk /\ idx_data' = << >> /\ entries' = << >> ]_vars
  /\ [](ConfigurationError
          => /\ Converted
             /\ DocumentUntouched
             /\ ~HasMsg("found") /\ ~HasMsg("index_not_found") /\ ~HasMsg("read_error")
             /\ m < module_dirs => ENABLED main_next_module
             /\ m = module_dirs => ENABLED main_summary)

\* The first of two modules has a descriptor naming a data directory that
\* does not exist; its conversion is over and the document an earlier run
\* left is still there.
C12_Witness ==
  /\ Converted
  /\ HasMsg("no_data_dir")
  /\ m = 1
  /\ module_dirs = 2
  /\ returned = << FALSE >>
  /\ out_file = StaleDocument

\* The byte range of slot k runs past the end of the data file.
ShortRead(k) ==
  /\ ~SlotEmpty(k)
  /\ IndexRecord(k).offset + IndexRecord(k).compressedLength > Len(DatFile)

\* The entries read_sword_index holds are those of the index it read.
ScanState == HasMsg("found") /\ pc \in { "scan", "generate", "write" }

\* C14: a scanned slot that is not empty and whose byte range runs past the
\* end of the data file gets no entry, whatever the bytes that could be
\* read hold, and the scan goes on to the last slot.
C14_ShortReadSkipped ==
  ScanState
    => /\ \A k \in Scanned : ShortRead(k) => k \notin EntryIdxs
       /\ HasMsg("read") => i = Cardinality(Scanned)

\* Every slot of the index that was read, whatever its position.
AllSlots == 0 .. ((Len(idx_data) \div entry_size) - 1)

\* C15: read_sword_index is called with no maximum, so a finished scan has
\* attempted every slot of the index and holds an entry for every valid
\* slot, those at position 100 and beyond included.
C15_NoHardLimit ==
  (ScanState /\ HasMsg("read"))
    => /\ i = Cardinality(AllSlots)
       /\ EntryIdxs = { k \in AllSlots : SlotValid(k) }

\* The output document is open, or was finished by the current call.
Writing == pc = "write" \/ (Converted /\ HasMsg("created"))

\* The decoded records the write loop has taken so far.
Taken == SubSeq(entries, 1, IF pc = "write" THEN w ELSE Min(50, Len(entries)))

IsPrefix(a, b) == Len(a) <= Len(b) /\ SubSeq(b, 1, Len(a)) = a

\* The references of the records taken so far that lie in the catalog, in
\* the order the records were taken.
TakenReferences ==
  LET inside == SelectSeq(Taken, InCatalog)
  IN  [j \in DOMAIN inside |-> SpecReference(inside[j].idx)]

\* C16: the decoded records are held in strictly increasing slot order;
\* the document being written is the complete header followed by the verse
\* elements of the records taken so far, in that order, no two with the
\* same osisID, and the footer comes last; every write appends, leaving
\* what was written in place.
C16_OutputOrder ==
  /\ [](ScanState
          => \A a \in 1..(Len(entries) - 1) : entries[a].idx < entries[a + 1].idx)
  /\ [](Writing
          => /\ IsPrefix(Header, out_file)
             /\ DocTags(out_file)
                  = IF pc = "write"
                    THEN DocTags(Header) \o [j \in 1..Len(TakenReferences) |-> "verse"]
                    ELSE ExpectedTags(Len(TakenReferences))
             /\ LET verses == DocVerses(out_file)
                IN  /\ [j \in DOMAIN verses |-> verses[j].osisID] = TakenReferences
                    /\ Cardinality({ verses[j].osisID : j \in DOMAIN verses }) = Len(verses))
  /\ [][ pc = "write" => IsPrefix(out_file, out_file') /\ Len(out_file') > Len(out_file) ]_vars

\* A document of 50 verse elements was finished from records of which the
\* first is that of slot 1, slot 0 having given none.
C16_Witness ==
  /\ Converted
  /\ HasMsg("created")
  /\ Len(DocVerses(out_file)) = 50
  /\ entries[1].idx = 1
  /\ DocVerses(out_file)[1].osisID = << "Gen", ".", "1", ".", "2" >>

\* C17: no slot beyond 0..99 is attempted or decoded; the document holds
\* at most 50 verse elements, those of the lowest decoded slots, and the
\* osisID of each is Gen.1.v with v the slot index plus one, in 1..100.
C17_ReachableOutput ==
  /\ ScanState => i <= 100 /\ EntryIdxs \subseteq 0..99
  /\ Writing
       => /\ Len(DocVerses(out_file)) <= 50
          /\ LET verses == DocVerses(out_file)
             IN  \A j \in DOMAIN verses :
                   /\ j <= Len(entries)
                   /\ j < Len(entries) => entries[j].idx < entries[j + 1].idx
                   /\ entries[j].idx + 1 \in 1..100
                   /\ verses[j].osisID
                        = << "Gen", ".", "1", "." >> \o Str(entries[j].idx + 1)

\* A document of 50 verse elements was finished from 99 decoded records;
\* its last element is that of slot 50.
C17_Witness ==
  /\ Converted
  /\ HasMsg("created")
  /\ Len(entries) = 99
  /\ Len(DocVerses(out_file)) = 50
  /\ DocVerses(out_file)[50].osisID = << "Gen", ".", "1", ".", "5", "1" >>

====
